---- MODULE Spec2Model ----
(***************************************************************************)
(* TravelLogging: the Journaling component (recording, audio processing,   *)
(* merge of a narrative result into the active Day, manual edits, image    *)
(* uploads), the part of App that stores the trip it edits, and, as a      *)
(* second specification (AuthSpec), App's navigation and the Auth form;    *)
(* a third (NavSpec) lets a signed-in user leave Journaling and open or    *)
(* create trips while recordings and uploads are pending.                  *)
(*                                                                         *)
(* React closures are modelled as what they are: every handler reads the   *)
(* props and state of the render that created it.  A handler that runs     *)
(* later (the recorder's onstop, a FileReader's onloadend) carries a       *)
(* snapshot: the variable part of that snapshot is the record `Capture`.   *)
(*                                                                         *)
(* JS strings whose content matters (transcripts) are sequences of         *)
(* one-character strings; other strings are TLA+ strings.  A JS object     *)
(* with optional keys is a function whose DOMAIN is the set of keys that   *)
(* are present.  JS numbers are integers (JSON carries no NaN); the NaN    *)
(* that parseFloat yields is the empty option {}.                          *)
(***************************************************************************)
EXTENDS Integers, Sequences, FiniteSets, TLC

VARIABLES
    lang,              \* App.lang: "en" | "hi"
    trips,             \* App.trips, written together with localStorage travellog_trips
    selectedTrip,      \* App.selectedTrip = the trip prop of Journaling
    activeDayIdx,      \* Journaling.activeDayIdx, 1-based here (0-based in the code)
    isRecording,       \* Journaling.isRecording
    isProcessing,      \* Journaling.isProcessing
    mediaRecorderRef,  \* mediaRecorderRef.current: a cycle number, 0 for null
    streamRef,         \* streamRef.current: a cycle number, 0 for null
    chunksRef,         \* chunksRef.current: the cycles whose data were pushed
    cycles,            \* one entry per startRecording call: where it is and its closure
    readers,           \* FileReaders that have not fired onloadend yet
    now,               \* Date.now(), in units of one service round trip
    ops,               \* number of user edits made so far (bounded by MaxOps)
    last,              \* history: the most recent onUpdateTrip call
    view,              \* App.view: "LANDING" | "AUTH" | "VAULT" | "JOURNALING"
    user,              \* App.user: a public profile, or NoUser for null
    savedUser,         \* localStorage travellog_user, NoUser when the key is absent
    pendingAction,     \* App.pendingAction: "NEW_TRIP" | "VIEW_VAULT" | "null"
    registry,          \* localStorage travellog_registry: a sequence of RegistryUser
    auth,              \* the state of the mounted (or last mounted) Auth component
    timers,            \* the setTimeout callbacks of handleSubmit that have not run yet
    lastAuth           \* history: the most recent decision on the session, by App's
                       \* mount effect or by a callback of handleSubmit; NoAuth
                       \* before the mount effect has run

vars == <<lang, trips, selectedTrip, activeDayIdx, isRecording, isProcessing,
          mediaRecorderRef, streamRef, chunksRef, cycles, readers, now, ops, last,
          view, user, savedUser, pendingAction, registry, auth, timers, lastAuth>>

\* the state of App and Auth that Journaling neither reads nor writes
appVars == <<view, user, savedUser, pendingAction, registry, auth, timers, lastAuth>>

---------------------------------------------------------------------------
(* Bounds of the model *)

MaxCycles == 2
MaxOps == 1
MaxReaders == 1
MaxDays == 2
MaxTimers == 2
MaxMounts == 2
MaxRegistry == 2
MaxTrips == 2

---------------------------------------------------------------------------
(* Literals of the program *)

\* createNewTrip: the placeholders.  The Hindi literals are written in Latin
\* letters here; they stand for the Devanagari strings of the source.
TitleEn == "New Journey"
TitleHi == "Nai Yatra"
LocationEn == "Unknown"
LocationHi == "Anjaan Jagah"
DefaultCover == "unsplash-1469854523086"

DefaultSummary == "Awaiting your first story..."
AddDaySummaryEn == "Starting a new adventure..."
AddDaySummaryHi == "Ek naya romanch shuru ho raha hai..."

NoImage == "undefined"

\* t(en, hi) of the components
T(l, en, hi) == IF l = "en" THEN en ELSE hi

DefaultLogistics ==
    [hotelName |-> "", hotelCost |-> 0, transportMode |-> "", transportCost |-> 0]

DefaultMeal == [name |-> "", cost |-> 0, restaurant |-> ""]

DefaultFood ==
    [breakfast |-> DefaultMeal, lunch |-> DefaultMeal, dinner |-> DefaultMeal]

Meals == {"breakfast", "lunch", "dinner"}

createDefaultDay(dayNum) ==
    [dayNumber |-> dayNum,
     rawTranscript |-> <<>>,
     sections |-> <<>>,
     summary |-> DefaultSummary,
     logistics |-> DefaultLogistics,
     foodLogistics |-> DefaultFood,
     isCompleted |-> FALSE]

\* the Trip createNewTrip builds; its id is trip-${Date.now()}
NewTrip(l, t) ==
    [id |-> t,
     title |-> T(l, TitleEn, TitleHi),
     location |-> T(l, LocationEn, LocationHi),
     coverImage |-> DefaultCover,
     days |-> <<createDefaultDay(1)>>]

---------------------------------------------------------------------------
(* JavaScript operators *)

EmptyObj == [k \in {} |-> 0]

\* o?.k : the option of the value under key k
Opt(o, k) == IF k \in DOMAIN o THEN {o[k]} ELSE {}

\* o?.k where the value is itself an object; undefined spreads as no keys
Sub(o, k) == IF k \in DOMAIN o THEN o[k] ELSE EmptyObj

\* { ...a, ...b }
Spread(a, b) ==
    [k \in (DOMAIN a) \cup (DOMAIN b) |-> IF k \in DOMAIN b THEN b[k] ELSE a[k]]

\* x || cur for a string x that may be undefined: "" and undefined are falsy
OrStr(opt, cur) ==
    IF \E v \in opt : v # "" THEN CHOOSE v \in opt : TRUE ELSE cur

\* x || cur for a number x that may be undefined: 0 and undefined are falsy
OrNum(opt, cur) ==
    IF \E v \in opt : v # 0 THEN CHOOSE v \in opt : TRUE ELSE cur

Whitespace == {" "}

RECURSIVE TrimStart(_)
TrimStart(s) ==
    IF s = <<>> THEN <<>>
    ELSE IF Head(s) \in Whitespace THEN TrimStart(Tail(s)) ELSE s

RECURSIVE TrimEnd(_)
TrimEnd(s) ==
    IF s = <<>> THEN <<>>
    ELSE IF s[Len(s)] \in Whitespace THEN TrimEnd(SubSeq(s, 1, Len(s) - 1)) ELSE s

\* String.prototype.trim
Trim(s) == TrimEnd(TrimStart(s))

\* parseFloat of the value of an <input type="number">: the option of the
\* number, {} for NaN.  The input's value is "" or a valid number.
ParseFloat(text) ==
    CASE text = "" -> {}
      [] text = "0" -> {0}
      [] text = "500" -> {500}
      [] text = "1000" -> {1000}
      [] text = "-5" -> {-5}

\* parseFloat(e.target.value) || 0
ParseFloatOr0(text) == OrNum(ParseFloat(text), 0)

---------------------------------------------------------------------------
(* The narrative generation service: what JSON.parse may hand back *)

SecA == [paragraph_en |-> "Morning at the fort", paragraph_hi |-> "Qile par subah", topic |-> "Fort"]
SecB == [paragraph_en |-> "Evening by the sea", paragraph_hi |-> "Samudra kinare shaam", topic |-> "Beach"]

\* every optional field supplied
ResultFull ==
    [sections |-> <<SecA, SecB>>,
     summary |-> "A day in Goa",
     suggestedTitle |-> "Goa Diaries",
     suggestedLocation |-> "Goa",
     logistics |-> [hotelName |-> "Oberoi", hotelCost |-> 500,
                    transportMode |-> "Taxi", transportCost |-> 500],
     foodLogistics |-> [breakfast |-> [name |-> "Idli", cost |-> 500, restaurant |-> "Dhaba"],
                        lunch |-> [name |-> "Thali", cost |-> 500, restaurant |-> "Dhaba"],
                        dinner |-> [name |-> "Curry", cost |-> 500, restaurant |-> "Dhaba"]]]

\* only transportCost and one meal's cost supplied
ResultPartial ==
    [sections |-> <<SecA, SecB>>,
     summary |-> "On the road",
     logistics |-> [transportCost |-> 500],
     foodLogistics |-> [lunch |-> [cost |-> 500]]]

\* an empty section list and nothing else
ResultNoChange ==
    [sections |-> <<>>, summary |-> ""]

\* every optional field supplied, empty or zero
ResultEmptyValues ==
    [sections |-> <<SecA>>,
     summary |-> "",
     suggestedTitle |-> "",
     suggestedLocation |-> "",
     logistics |-> [hotelName |-> "", hotelCost |-> 0,
                    transportMode |-> "", transportCost |-> 0],
     foodLogistics |-> [breakfast |-> [name |-> "", cost |-> 0, restaurant |-> ""]]]

\* negative amounts
ResultNegative ==
    [sections |-> <<SecB>>,
     summary |-> "Refunds",
     logistics |-> [hotelCost |-> -5],
     foodLogistics |-> [dinner |-> [cost |-> -5]]]

\* response.text empty: JSON.parse("{}")
ResultEmptyObject == EmptyObj

Results ==
    <<ResultFull, ResultPartial, ResultNoChange, ResultEmptyValues,
      ResultNegative, ResultEmptyObject>>

\* what transcribeAudio may return
Transcripts == << <<>>, <<" ">>, <<"a", " ">> >>

---------------------------------------------------------------------------
(* handleAudioProcessing: the merge *)

\* a variant of NewSections whose ids leave the index out
SectionsWithOneId(result, t) ==
    LET secs == IF "sections" \in DOMAIN result THEN result.sections ELSE <<>>
    IN  [i \in 1..Len(secs) |->
            [id |-> <<0, t>>,
             paragraphEn |-> secs[i].paragraph_en,
             paragraphHi |-> secs[i].paragraph_hi,
             topic |-> secs[i].topic,
             image |-> NoImage]]

\* (result.sections || []).map((s, idx) => ({ id: `section-${idx}-${Date.now()}`, ... }))
NewSections(result, t) ==
    LET secs == IF "sections" \in DOMAIN result THEN result.sections ELSE <<>>
    IN  [i \in 1..Len(secs) |->
            [id |-> <<i - 1, t>>,
             paragraphEn |-> secs[i].paragraph_en,
             paragraphHi |-> secs[i].paragraph_hi,
             topic |-> secs[i].topic,
             image |-> NoImage]]

\* trip.title === 'New Journey' && result.suggestedTitle
UpdatedTitle(trip, result) ==
    IF trip.title = "New Journey" /\ (\E v \in Opt(result, "suggestedTitle") : v # "")
    THEN result.suggestedTitle ELSE trip.title

\* trip.location === 'Unknown' && result.suggestedLocation
UpdatedLocation(trip, result) ==
    IF trip.location = "Unknown" /\ (\E v \in Opt(result, "suggestedLocation") : v # "")
    THEN result.suggestedLocation ELSE trip.location

\* logistics: { hotelName: result.logistics?.hotelName || logistics.hotelName, ... }
MergeLogistics(logistics, result) ==
    LET r == Sub(result, "logistics")
    IN  [hotelName |-> OrStr(Opt(r, "hotelName"), logistics.hotelName),
         hotelCost |-> OrNum(Opt(r, "hotelCost"), logistics.hotelCost),
         transportMode |-> OrStr(Opt(r, "transportMode"), logistics.transportMode),
         transportCost |-> OrNum(Opt(r, "transportCost"), logistics.transportCost)]

\* breakfast: { ...foodLog.breakfast, ...result.foodLogistics?.breakfast }, ...
MergeFood(foodLog, result) ==
    LET r == Sub(result, "foodLogistics")
    IN  [breakfast |-> Spread(foodLog.breakfast, Sub(r, "breakfast")),
         lunch |-> Spread(foodLog.lunch, Sub(r, "lunch")),
         dinner |-> Spread(foodLog.dinner, Sub(r, "dinner"))]

\* const updatedDay: DayLog = { ...activeDay, rawTranscript: ..., ... }
UpdatedDay(activeDay, logistics, foodLog, transcript, result, t) ==
    [activeDay EXCEPT
        !.rawTranscript = activeDay.rawTranscript \o <<" ">> \o transcript,
        !.sections = activeDay.sections \o NewSections(result, t),
        !.summary = OrStr(Opt(result, "summary"), activeDay.summary),
        !.logistics = MergeLogistics(logistics, result),
        !.foodLogistics = MergeFood(foodLog, result)]

---------------------------------------------------------------------------
(* Renders and closures *)

\* What the handlers of the current render read.  The local states logistics
\* and foodLog are not in it: the effect on [activeDayIdx, trip.days] sets them
\* to activeDay's before any handler of that render can run.
Capture ==
    [trip |-> selectedTrip, activeDayIdx |-> activeDayIdx, trips |-> trips, lang |-> lang]

NoClosure == [none |-> TRUE]

\* const activeDay = trip.days[activeDayIdx]
ActiveDay(cl) == cl.trip.days[cl.activeDayIdx]

\* the local state logistics in the render of cl
LocalLogistics(cl) == ActiveDay(cl).logistics

\* the local state foodLog in the render of cl
LocalFoodLog(cl) == ActiveDay(cl).foodLogistics

\* view === 'JOURNALING' && selectedTrip, and if (!activeDay) return null :
\* nothing of Journaling is on screen otherwise
Rendered == view = "JOURNALING" /\ activeDayIdx \in 1..Len(selectedTrip.days)

\* the trip handleAudioProcessing passes to onUpdateTrip
MergedTrip(cl, transcript, result, t) ==
    LET updatedDay == UpdatedDay(ActiveDay(cl), LocalLogistics(cl), LocalFoodLog(cl),
                                 transcript, result, t)
    IN  [cl.trip EXCEPT
            !.title = UpdatedTitle(cl.trip, result),
            !.location = UpdatedLocation(cl.trip, result),
            !.days = [cl.trip.days EXCEPT ![cl.activeDayIdx] = updatedDay]]

\* App.handleUpdateTrip, called through the onUpdateTrip prop of the render of cl
handleUpdateTrip(cl, updatedTrip, op, rid, transcript) ==
    /\ trips' = [i \in 1..Len(cl.trips) |->
                    IF cl.trips[i].id = updatedTrip.id THEN updatedTrip ELSE cl.trips[i]]
    /\ selectedTrip' = updatedTrip
    /\ last' = [op |-> op, before |-> selectedTrip, cl |-> cl, rid |-> rid,
                transcript |-> transcript, at |-> now]

---------------------------------------------------------------------------
(* Auth: what the user types, and the string operations of handleSubmit.   *)
(* Emails, passwords and names are sequences of one-character strings.     *)

Gmail == <<"@", "g", "m", "a", "i", "l", ".", "c", "o", "m">>
EmailA == <<"a">> \o Gmail
EmailARaw == <<"A">> \o Gmail \o <<" ">>
EmailB == <<"b">> \o Gmail
EmailOther == <<"a", "@", "x", ".", "c", "o", "m">>
EmailTexts == {EmailA, EmailARaw, EmailB, EmailOther}

SecretA == <<"a", "b", "c", "d", "e", "f">>
SecretB == <<"a", "b", "c", "d", "e", "g">>
SecretShort == <<"a", "b", "c">>
PasswordTexts == {SecretA, SecretB, SecretShort}

NameTexts == {<<"A", "s", "h", "a">>}

\* the upper-case letters that occur in the inputs
UpperToLower == [ch \in {"A", "B"} |-> IF ch = "A" THEN "a" ELSE "b"]

\* String.prototype.toLowerCase
ToLowerCase(s) ==
    [i \in 1..Len(s) |-> IF s[i] \in DOMAIN UpperToLower THEN UpperToLower[s[i]] ELSE s[i]]

\* a variant of EndsWith that accepts every suffix
AnyDomain(s, suffix) == TRUE

\* String.prototype.endsWith
EndsWith(s, suffix) ==
    /\ Len(suffix) <= Len(s)
    /\ SubSeq(s, Len(s) - Len(suffix) + 1, Len(s)) = suffix

\* emailClean.split('@')[0]
BeforeAt(s) ==
    LET ats == {i \in 1..Len(s) : s[i] = "@"}
    IN  IF ats = {} THEN s
        ELSE SubSeq(s, 1, (CHOOSE i \in ats : \A j \in ats : i <= j) - 1)

\* const emailClean = email.toLowerCase().trim()
EmailClean(email) == Trim(ToLowerCase(email))

\* the minimum password.length handleSubmit accepts
MinPasswordLength == 6

NoUser == [none |-> TRUE]

\* the ids 'user-' + Math.random()... can produce
UserIds == {"user-1", "user-2"}

\* the RegistryUser handleSubmit builds on signup
NewUser(id, emailClean, name, password) ==
    [id |-> id,
     email |-> emailClean,
     name |-> IF name # <<>> THEN name ELSE BeforeAt(emailClean),
     password |-> password,
     avatar |-> <<"dicebear">> \o emailClean]

\* a variant of UserProfile that hands the whole registry entry on
WholeEntry(entry) == entry

\* const { password: _, ...userProfile } = entry
UserProfile(entry) == [k \in DOMAIN entry \ {"password"} |-> entry[k]]

\* a variant of Find that never finds an entry
FindNothing(reg, emailClean) == {}

\* registry.find(u => u.email === emailClean): the entries found, none or one
Find(reg, emailClean) ==
    LET hits == {i \in 1..Len(reg) : reg[i].email = emailClean}
    IN  IF hits = {} THEN {}
        ELSE {reg[CHOOSE i \in hits : \A j \in hits : i <= j]}

\* the account that signed up before the session starts
RegisteredA == NewUser("user-1", EmailA, <<"A", "s", "h", "a">>, SecretA)

\* the messages setError shows, named by their English text
InvalidEmail == "Please use a valid @gmail.com address."
ShortPassword == "Password must be at least 6 characters."
NotFound == "Account not found. Please sign up first."
InvalidCredential == "Incorrect password. Please try again."
AlreadyExists == "An account with this email already exists."
NoError == "null"

\* the state of a freshly mounted Auth component; mount counts the mounts
AuthMounted(mount) ==
    [mode |-> "LOGIN", email |-> <<>>, password |-> <<>>, name |-> <<>>,
     isLoading |-> FALSE, error |-> NoError, mount |-> mount]

NoAuth == [request |-> NoUser, outcome |-> "none"]

---------------------------------------------------------------------------
(* Initial state: the user has just started a new chronicle *)

\* the two notices the component shows with alert()
NoAlert == "none"
MicrophoneDenied == "Microphone access denied"
FailedToProcess == "Failed to process journey"

\* where a startRecording call and the handleAudioProcessing call of its recorder
\* can have returned: the catch of startRecording, the return on an empty Blob,
\* the return on an empty transcript, the catch of handleAudioProcessing, and the
\* end of its try block
Ended == {"denied", "noAudio", "noTranscript", "failed", "merged"}

\* submitted is history: the clock value at which the cycle's transcript was
\* handed to processJournalEntry, 0 before that.  mounted: the Journaling whose
\* handler started the cycle is still the one on screen, so that the cycle's
\* setIsRecording, setIsProcessing and refs are those of the component shown
IdleCycle == [pc |-> "idle", cl |-> NoClosure, transcript |-> <<>>, tracks |-> "none",
              alert |-> NoAlert, submitted |-> 0, mounted |-> TRUE]

Init ==
    /\ lang \in {"en", "hi"}
    /\ now = 0
    /\ selectedTrip = NewTrip(lang, now)
    /\ trips = <<selectedTrip>>
    /\ activeDayIdx = 1
    /\ isRecording = FALSE
    /\ isProcessing = FALSE
    /\ mediaRecorderRef = 0
    /\ streamRef = 0
    /\ chunksRef = <<>>
    /\ cycles = [c \in 1..MaxCycles |-> IdleCycle]
    /\ readers = <<>>
    /\ ops = 0
    /\ last = [op |-> "none", before |-> selectedTrip, cl |-> NoClosure, rid |-> 0,
               transcript |-> <<>>, at |-> now]
    /\ view = "JOURNALING"
    /\ registry = <<RegisteredA>>
    /\ user = UserProfile(RegisteredA)
    /\ savedUser = user
    /\ pendingAction = "null"
    /\ auth = AuthMounted(1)
    /\ timers = <<>>
    /\ lastAuth = NoAuth

Recording == <<isRecording, isProcessing, mediaRecorderRef, streamRef, chunksRef, cycles>>

\* setIsProcessing(value) of cycle c's handleAudioProcessing: a state update of
\* a component that is no longer mounted is dropped
setIsProcessing(c, value) ==
    isProcessing' = IF cycles[c].mounted THEN value ELSE isProcessing

---------------------------------------------------------------------------
(* The recording cycle *)

\* click on the record button while it shows the microphone: startRecording
\* runs up to await getUserMedia
StartRecording(c) ==
    /\ Rendered /\ ~isRecording /\ ~isProcessing
    /\ cycles[c].pc = "idle"
    /\ \A d \in 1..(c - 1) : cycles[d].pc # "idle"
    /\ cycles' = [cycles EXCEPT ![c].pc = "acquiring", ![c].cl = Capture]
    /\ UNCHANGED <<lang, trips, selectedTrip, activeDayIdx, isRecording, isProcessing,
                   mediaRecorderRef, streamRef, chunksRef, readers, now, ops, last>>
    /\ UNCHANGED appVars

\* getUserMedia resolves: the rest of startRecording's try block
GetUserMediaResolved(c) ==
    /\ cycles[c].pc = "acquiring"
    /\ IF cycles[c].mounted
       THEN /\ streamRef' = c
            /\ mediaRecorderRef' = c
            /\ chunksRef' = <<>>
            /\ isRecording' = TRUE
       ELSE UNCHANGED <<streamRef, mediaRecorderRef, chunksRef, isRecording>>
    /\ cycles' = [cycles EXCEPT ![c].pc = "recording", ![c].tracks = "live"]
    /\ UNCHANGED <<lang, trips, selectedTrip, activeDayIdx, isProcessing, readers, now,
                   ops, last>>
    /\ UNCHANGED appVars

\* getUserMedia rejects: the catch block of startRecording
GetUserMediaRejected(c) ==
    /\ cycles[c].pc = "acquiring"
    /\ cycles' = [cycles EXCEPT ![c].pc = "denied", ![c].cl = NoClosure,
                                ![c].alert = MicrophoneDenied]
    /\ UNCHANGED <<lang, trips, selectedTrip, activeDayIdx, isRecording, isProcessing,
                   mediaRecorderRef, streamRef, chunksRef, readers, now, ops, last>>
    /\ UNCHANGED appVars

\* click on the record button while it shows stop: stopRecording
StopRecording ==
    /\ Rendered /\ isRecording /\ ~isProcessing
    /\ isRecording' = FALSE
    /\ LET stopped ==
               IF mediaRecorderRef # 0 /\ cycles[mediaRecorderRef].pc = "recording"
               THEN [cycles EXCEPT ![mediaRecorderRef].pc = "stopping"]
               ELSE cycles
       IN  cycles' = IF streamRef # 0
                     THEN [stopped EXCEPT ![streamRef].tracks = "stopped"]
                     ELSE stopped
    /\ streamRef' = 0
    /\ UNCHANGED <<lang, trips, selectedTrip, activeDayIdx, isProcessing, mediaRecorderRef,
                   chunksRef, readers, now, ops, last>>
    /\ UNCHANGED appVars

\* the recorder's dataavailable event after stop(): ondataavailable
DataAvailable(c) ==
    /\ cycles[c].pc = "stopping"
    /\ \E size \in {0, 1} :
          chunksRef' = IF size > 0 THEN Append(chunksRef, c) ELSE chunksRef
    /\ cycles' = [cycles EXCEPT ![c].pc = "stopped"]
    /\ UNCHANGED <<lang, trips, selectedTrip, activeDayIdx, isRecording, isProcessing,
                   mediaRecorderRef, streamRef, readers, now, ops, last>>
    /\ UNCHANGED appVars

\* the recorder's stop event: onstop builds the Blob and handleAudioProcessing
\* runs up to await transcribeAudio
OnStop(c) ==
    /\ cycles[c].pc = "stopped"
    /\ IF Len(chunksRef) = 0
       THEN /\ cycles' = [cycles EXCEPT ![c].pc = "noAudio", ![c].cl = NoClosure]
            /\ UNCHANGED isProcessing
       ELSE /\ cycles' = [cycles EXCEPT ![c].pc = "transcribing"]
            /\ setIsProcessing(c, TRUE)
    /\ UNCHANGED <<lang, trips, selectedTrip, activeDayIdx, isRecording, mediaRecorderRef,
                   streamRef, chunksRef, readers, now, ops, last>>
    /\ UNCHANGED appVars

\* a variant of TranscribeReturned that treats an empty transcript as an error:
\* it shows the failure notice before it returns
TranscribeReturnedAlerts(c) ==
    /\ cycles[c].pc = "transcribing"
    /\ \E i \in 1..Len(Transcripts) :
          IF Trim(Transcripts[i]) = <<>>
          THEN /\ setIsProcessing(c, FALSE)
               /\ cycles' = [cycles EXCEPT ![c].pc = "noTranscript", ![c].cl = NoClosure,
                                           ![c].alert = FailedToProcess]
          ELSE /\ cycles' = [cycles EXCEPT ![c].pc = "generating",
                                           ![c].transcript = Transcripts[i],
                                           ![c].submitted = now + 1]
               /\ UNCHANGED isProcessing
    /\ now' = now + 1
    /\ UNCHANGED <<lang, trips, selectedTrip, activeDayIdx, isRecording, mediaRecorderRef,
                   streamRef, chunksRef, readers, ops, last>>
    /\ UNCHANGED appVars

\* a variant of ServiceFailed whose catch block only logs: no notice is shown
ServiceFailedSilently(c) ==
    /\ cycles[c].pc \in {"transcribing", "generating"}
    /\ setIsProcessing(c, FALSE)
    /\ cycles' = [cycles EXCEPT ![c].pc = "failed", ![c].cl = NoClosure,
                                ![c].transcript = <<>>]
    /\ UNCHANGED <<lang, trips, selectedTrip, activeDayIdx, isRecording, mediaRecorderRef,
                   streamRef, chunksRef, readers, now, ops, last>>
    /\ UNCHANGED appVars

\* a variant of ServiceFailed without the finally block: isProcessing stays true
ServiceFailedNoFinally(c) ==
    /\ cycles[c].pc \in {"transcribing", "generating"}
    /\ cycles' = [cycles EXCEPT ![c].pc = "failed", ![c].cl = NoClosure,
                                ![c].transcript = <<>>, ![c].alert = FailedToProcess]
    /\ UNCHANGED <<lang, trips, selectedTrip, activeDayIdx, isRecording, isProcessing,
                   mediaRecorderRef, streamRef, chunksRef, readers, now, ops, last>>
    /\ UNCHANGED appVars

\* transcribeAudio returns: handleAudioProcessing runs up to await processJournalEntry,
\* or returns on a transcript that trims to nothing
TranscribeReturned(c) ==
    /\ cycles[c].pc = "transcribing"
    /\ \E i \in 1..Len(Transcripts) :
          IF Trim(Transcripts[i]) = <<>>
          THEN /\ setIsProcessing(c, FALSE)
               /\ cycles' = [cycles EXCEPT ![c].pc = "noTranscript", ![c].cl = NoClosure]
          ELSE /\ cycles' = [cycles EXCEPT ![c].pc = "generating",
                                           ![c].transcript = Transcripts[i],
                                           ![c].submitted = now + 1]
               /\ UNCHANGED isProcessing
    /\ now' = now + 1
    /\ UNCHANGED <<lang, trips, selectedTrip, activeDayIdx, isRecording, mediaRecorderRef,
                   streamRef, chunksRef, readers, ops, last>>
    /\ UNCHANGED appVars

\* transcribeAudio or processJournalEntry throws: catch, alert, finally
ServiceFailed(c) ==
    /\ cycles[c].pc \in {"transcribing", "generating"}
    /\ setIsProcessing(c, FALSE)
    /\ cycles' = [cycles EXCEPT ![c].pc = "failed", ![c].cl = NoClosure,
                                ![c].transcript = <<>>, ![c].alert = FailedToProcess]
    /\ UNCHANGED <<lang, trips, selectedTrip, activeDayIdx, isRecording, mediaRecorderRef,
                   streamRef, chunksRef, readers, now, ops, last>>
    /\ UNCHANGED appVars

\* processJournalEntry returns: the merge, onUpdateTrip, finally
ProcessReturned(c) ==
    /\ cycles[c].pc = "generating"
    /\ \E rid \in 1..Len(Results) :
          handleUpdateTrip(cycles[c].cl,
                           MergedTrip(cycles[c].cl, cycles[c].transcript, Results[rid], now),
                           "merge", rid, cycles[c].transcript)
    /\ setIsProcessing(c, FALSE)
    /\ cycles' = [cycles EXCEPT ![c].pc = "merged", ![c].cl = NoClosure,
                                ![c].transcript = <<>>]
    /\ UNCHANGED <<lang, activeDayIdx, isRecording, mediaRecorderRef, streamRef, chunksRef,
                   readers, now, ops>>
    /\ UNCHANGED appVars

---------------------------------------------------------------------------
(* What the user types *)

HotelNames == {"Taj"}
TransportModes == {"Train"}
CostTexts == {"", "1000", "-5"}
MealNames == {"Poha"}
RestaurantNames == {"Cafe"}
TitleTexts == {"", "My Trip"}
LocationTexts == {"Pune"}

\* the value the onChange of a logistics input passes to handleLogisticChange
LogisticValues(field) ==
    CASE field = "hotelName" -> HotelNames
      [] field = "transportMode" -> TransportModes
      [] field \in {"hotelCost", "transportCost"} -> {ParseFloatOr0(x) : x \in CostTexts}

\* the value the onChange of a meal input passes to handleFoodChange
FoodValues(field) ==
    CASE field = "name" -> MealNames
      [] field = "restaurant" -> RestaurantNames
      [] field = "cost" -> {ParseFloatOr0(x) : x \in CostTexts}

Journal == <<isRecording, isProcessing, mediaRecorderRef, streamRef, chunksRef, cycles,
             readers, now, lang>>

---------------------------------------------------------------------------
(* Manual edits: handlers of the current render *)

handleLogisticChange(field, value) ==
    LET cl == Capture
        newLogistics == [LocalLogistics(cl) EXCEPT ![field] = value]
        newDays == [cl.trip.days EXCEPT
                       ![cl.activeDayIdx] = [ActiveDay(cl) EXCEPT !.logistics = newLogistics]]
    IN  handleUpdateTrip(cl, [cl.trip EXCEPT !.days = newDays], "logistics", 0, <<>>)

LogisticChange ==
    /\ Rendered /\ ops < MaxOps
    /\ \E field \in DOMAIN DefaultLogistics :
          \E value \in LogisticValues(field) : handleLogisticChange(field, value)
    /\ ops' = ops + 1
    /\ UNCHANGED <<Journal, activeDayIdx>>
    /\ UNCHANGED appVars

handleFoodChange(meal, field, value) ==
    LET cl == Capture
        newFoodLog == [LocalFoodLog(cl) EXCEPT ![meal] = [@ EXCEPT ![field] = value]]
        newDays == [cl.trip.days EXCEPT
                       ![cl.activeDayIdx] = [ActiveDay(cl) EXCEPT !.foodLogistics = newFoodLog]]
    IN  handleUpdateTrip(cl, [cl.trip EXCEPT !.days = newDays], "food", 0, <<>>)

FoodChange ==
    /\ Rendered /\ ops < MaxOps
    /\ \E meal \in Meals :
          \E field \in DOMAIN DefaultMeal :
             \E value \in FoodValues(field) : handleFoodChange(meal, field, value)
    /\ ops' = ops + 1
    /\ UNCHANGED <<Journal, activeDayIdx>>
    /\ UNCHANGED appVars

\* the Trip Title input of the settings panel
TitleChange ==
    /\ Rendered /\ ops < MaxOps
    /\ \E value \in TitleTexts :
          handleUpdateTrip(Capture, [selectedTrip EXCEPT !.title = value], "title", 0, <<>>)
    /\ ops' = ops + 1
    /\ UNCHANGED <<Journal, activeDayIdx>>
    /\ UNCHANGED appVars

\* the Base City input of the settings panel
LocationChange ==
    /\ Rendered /\ ops < MaxOps
    /\ \E value \in LocationTexts :
          handleUpdateTrip(Capture, [selectedTrip EXCEPT !.location = value], "location",
                           0, <<>>)
    /\ ops' = ops + 1
    /\ UNCHANGED <<Journal, activeDayIdx>>
    /\ UNCHANGED appVars

handleAddDay ==
    /\ Rendered
    /\ Len(selectedTrip.days) < MaxDays
    /\ LET newDayNum == Len(selectedTrip.days) + 1
           newDay == [createDefaultDay(newDayNum) EXCEPT
                         !.summary = T(lang, AddDaySummaryEn, AddDaySummaryHi)]
       IN  handleUpdateTrip(Capture,
                            [selectedTrip EXCEPT !.days = Append(selectedTrip.days, newDay)],
                            "addDay", 0, <<>>)
    /\ activeDayIdx' = Len(selectedTrip.days) + 1
    /\ UNCHANGED <<Journal, ops>>
    /\ UNCHANGED appVars

\* click on a day tab: setActiveDayIdx(idx)
SelectDay ==
    /\ Rendered /\ ops < MaxOps
    /\ \E idx \in 1..Len(selectedTrip.days) :
          /\ idx # activeDayIdx
          /\ activeDayIdx' = idx
    /\ ops' = ops + 1
    /\ UNCHANGED <<Journal, trips, selectedTrip, last>>
    /\ UNCHANGED appVars

toggleLang ==
    /\ ops < MaxOps
    /\ lang' = IF lang = "en" THEN "hi" ELSE "en"
    /\ ops' = ops + 1
    /\ UNCHANGED <<trips, selectedTrip, activeDayIdx, isRecording, isProcessing,
                   mediaRecorderRef, streamRef, chunksRef, cycles, readers, now, last>>
    /\ UNCHANGED appVars

---------------------------------------------------------------------------
(* Image uploads: a FileReader is started by the current render's handler  *)
(* and its onloadend runs later with that render's trip and activeDayIdx   *)

ImageData == "data:image/1"
CoverData == "data:image/2"

\* a file is chosen for a section on screen: handleImageUploadForSection up to readAsDataURL
handleImageUploadForSection ==
    /\ Rendered /\ ops < MaxOps /\ Len(readers) < MaxReaders
    /\ \E k \in 1..Len(ActiveDay(Capture).sections) :
          readers' = Append(readers, [kind |-> "section", cl |-> Capture,
                                      sectionId |-> ActiveDay(Capture).sections[k].id])
    /\ ops' = ops + 1
    /\ UNCHANGED <<lang, trips, selectedTrip, activeDayIdx, isRecording, isProcessing,
                   mediaRecorderRef, streamRef, chunksRef, cycles, now, last>>
    /\ UNCHANGED appVars

\* a file is chosen in the settings panel: handleCoverUpload up to readAsDataURL
handleCoverUpload ==
    /\ Rendered /\ ops < MaxOps /\ Len(readers) < MaxReaders
    /\ readers' = Append(readers, [kind |-> "cover", cl |-> Capture, sectionId |-> <<>>])
    /\ ops' = ops + 1
    /\ UNCHANGED <<lang, trips, selectedTrip, activeDayIdx, isRecording, isProcessing,
                   mediaRecorderRef, streamRef, chunksRef, cycles, now, last>>
    /\ UNCHANGED appVars

\* currentDay.sections.map(s => s.id === sectionId ? { ...s, image: reader.result } : s)
WithImage(sections, sectionId, data) ==
    [k \in 1..Len(sections) |->
        IF sections[k].id = sectionId THEN [sections[k] EXCEPT !.image = data]
        ELSE sections[k]]

\* the trip a reader's onloadend passes to onUpdateTrip
LoadedTrip(r) ==
    IF r.kind = "cover"
    THEN [r.cl.trip EXCEPT !.coverImage = CoverData]
    ELSE [r.cl.trip EXCEPT
             !.days = [r.cl.trip.days EXCEPT
                          ![r.cl.activeDayIdx] =
                              [ActiveDay(r.cl) EXCEPT
                                  !.sections = WithImage(ActiveDay(r.cl).sections,
                                                         r.sectionId, ImageData)]]]

\* reader.onloadend
ReaderLoadEnd ==
    /\ \E i \in 1..Len(readers) :
          /\ handleUpdateTrip(readers[i].cl, LoadedTrip(readers[i]),
                              IF readers[i].kind = "cover" THEN "cover" ELSE "image", 0, <<>>)
          /\ readers' = [k \in 1..(Len(readers) - 1) |->
                            IF k < i THEN readers[k] ELSE readers[k + 1]]
    /\ UNCHANGED <<lang, activeDayIdx, isRecording, isProcessing, mediaRecorderRef,
                   streamRef, chunksRef, cycles, now, ops>>
    /\ UNCHANGED appVars

---------------------------------------------------------------------------
(* App navigation and Auth.  These steps happen while no recording runs:   *)
(* they leave the state of Journaling alone, except that a mount of        *)
(* Journaling starts on the trip's last Day.                               *)

NoTrip == [none |-> TRUE]

\* the state of the Journaling component and the history of its updates
journalVars == <<isRecording, isProcessing, mediaRecorderRef, streamRef, chunksRef, cycles,
                 readers, ops, last>>

\* What handleAuthComplete and the handlers it calls read: the App render in
\* which Auth was rendered when the form was submitted
AppCapture == [pendingAction |-> pendingAction, trips |-> trips, lang |-> lang]

\* createNewTrip in the App render of cl; Journaling mounts on the new trip
createNewTrip(cl) ==
    LET newTrip == NewTrip(cl.lang, now + 1)
    IN  /\ trips' = <<newTrip>> \o cl.trips
        /\ selectedTrip' = newTrip
        /\ view' = "JOURNALING"
        /\ activeDayIdx' = Len(newTrip.days)
        /\ now' = now + 1

executeAction(cl, action) ==
    IF action = "NEW_TRIP"
    THEN createNewTrip(cl)
    ELSE /\ view' = "VAULT"
         /\ UNCHANGED <<trips, selectedTrip, activeDayIdx, now>>

\* a profile persisted by an earlier visit whose account is not in the registry
Stranger == UserProfile(NewUser("user-2", EmailB, <<>>, SecretB))

\* a variant of SessionEffect that restores the persisted user without looking
\* it up in the registry
SessionRestored ==
    /\ lastAuth = NoAuth
    /\ view = "LANDING"
    /\ user' = savedUser
    /\ lastAuth' = [request |-> [mode |-> "STARTUP", email |-> <<>>, password |-> <<>>,
                                 registry |-> registry, savedUser |-> savedUser],
                    outcome |-> "startup"]
    /\ UNCHANGED <<lang, trips, selectedTrip, activeDayIdx, now, journalVars, view,
                   savedUser, pendingAction, registry, auth, timers>>

\* App's mount effect, before any click is handled: the persisted user is
\* restored when the registry has an entry with its email and removed otherwise
SessionEffect ==
    /\ lastAuth = NoAuth
    /\ view = "LANDING"
    /\ IF savedUser # NoUser
       THEN IF Find(registry, savedUser.email) # {}
            THEN /\ user' = savedUser
                 /\ UNCHANGED savedUser
            ELSE /\ savedUser' = NoUser
                 /\ UNCHANGED user
       ELSE UNCHANGED <<user, savedUser>>
    /\ lastAuth' = [request |-> [mode |-> "STARTUP", email |-> <<>>, password |-> <<>>,
                                 registry |-> registry, savedUser |-> savedUser],
                    outcome |-> "startup"]
    /\ UNCHANGED <<lang, trips, selectedTrip, activeDayIdx, now, journalVars, view,
                   pendingAction, registry, auth, timers>>

\* the Start and Explore buttons of Landing
handleAction ==
    /\ view = "LANDING"
    /\ lastAuth # NoAuth
    /\ \E action \in {"NEW_TRIP", "VIEW_VAULT"} :
          IF user = NoUser
          THEN /\ auth.mount < MaxMounts
               /\ pendingAction' = action
               /\ view' = "AUTH"
               /\ auth' = AuthMounted(auth.mount + 1)
               /\ UNCHANGED <<trips, selectedTrip, activeDayIdx, now>>
          ELSE /\ action = "NEW_TRIP" => Len(trips) + Len(timers) < MaxTrips
               /\ executeAction(AppCapture, action)
               /\ UNCHANGED <<pendingAction, auth>>
    /\ UNCHANGED <<lang, journalVars, user, savedUser, registry, timers, lastAuth>>

\* the back button of Auth: onBack
AuthBack ==
    /\ view = "AUTH"
    /\ view' = "LANDING"
    /\ UNCHANGED <<lang, trips, selectedTrip, activeDayIdx, now, journalVars, user, savedUser,
                   pendingAction, registry, auth, timers, lastAuth>>

\* the link under the form: setMode, setError(null)
ToggleMode ==
    /\ view = "AUTH"
    /\ auth' = [auth EXCEPT !.mode = IF @ = "LOGIN" THEN "SIGNUP" ELSE "LOGIN",
                            !.error = NoError]
    /\ UNCHANGED <<lang, trips, selectedTrip, activeDayIdx, now, journalVars, view, user,
                   savedUser, pendingAction, registry, timers, lastAuth>>

\* the form is submitted with the typed email, password and (on signup) name:
\* handleSubmit up to setTimeout
handleSubmit ==
    /\ view = "AUTH" /\ ~auth.isLoading
    /\ Len(timers) < MaxTimers
    /\ auth.mode = "SIGNUP" => Len(registry) + Len(timers) < MaxRegistry
    /\ pendingAction = "NEW_TRIP" => Len(trips) + Len(timers) < MaxTrips
    /\ \E email \in EmailTexts, password \in PasswordTexts,
          name \in (IF auth.mode = "SIGNUP" THEN NameTexts ELSE {auth.name}) :
          LET typed == [auth EXCEPT !.email = email, !.password = password, !.name = name]
              emailClean == EmailClean(email)
          IN  IF ~EndsWith(emailClean, Gmail)
              THEN /\ auth' = [typed EXCEPT !.error = InvalidEmail]
                   /\ UNCHANGED timers
              ELSE IF Len(password) < MinPasswordLength
              THEN /\ auth' = [typed EXCEPT !.error = ShortPassword]
                   /\ UNCHANGED timers
              ELSE /\ auth' = [typed EXCEPT !.error = NoError, !.isLoading = TRUE]
                   /\ timers' = Append(timers,
                         [mode |-> auth.mode, email |-> email, emailClean |-> emailClean,
                          password |-> password, name |-> name,
                          existingUser |-> Find(registry, emailClean),
                          mount |-> auth.mount, app |-> AppCapture,
                          registry |-> registry])
    /\ UNCHANGED <<lang, trips, selectedTrip, activeDayIdx, now, journalVars, view, user,
                   savedUser, pendingAction, registry, lastAuth>>

\* setError(message); setIsLoading(false) of the callback tm: they reach the
\* component only while the Auth that was submitted is still mounted
Rejected(tm, message) ==
    /\ auth' = IF view = "AUTH" /\ auth.mount = tm.mount
               THEN [auth EXCEPT !.error = message, !.isLoading = FALSE]
               ELSE auth
    /\ UNCHANGED <<trips, selectedTrip, activeDayIdx, now, view, user, savedUser,
                   pendingAction, registry>>

\* App.handleAuthComplete, called through the onAuthComplete prop of the render
\* in which the form was submitted
handleAuthComplete(cl, newUser) ==
    /\ user' = newUser
    /\ savedUser' = newUser
    /\ IF cl.pendingAction # "null"
       THEN /\ executeAction(cl, cl.pendingAction)
            /\ pendingAction' = "null"
       ELSE /\ view' = "VAULT"
            /\ UNCHANGED <<pendingAction, trips, selectedTrip, activeDayIdx, now>>
    /\ UNCHANGED auth

\* the request part of a callback, kept as history
Request(tm) ==
    [mode |-> tm.mode, email |-> tm.email, password |-> tm.password, registry |-> tm.registry]

\* the setTimeout callback of handleSubmit runs, 1200 ms after the submit
AuthTimeout ==
    /\ timers # <<>>
    /\ LET tm == Head(timers)
       IN  IF tm.mode = "LOGIN"
           THEN IF tm.existingUser = {}
                THEN /\ Rejected(tm, NotFound)
                     /\ lastAuth' = [request |-> Request(tm), outcome |-> NotFound]
                ELSE LET existingUser == CHOOSE u \in tm.existingUser : TRUE
                     IN  IF existingUser.password # tm.password
                         THEN /\ Rejected(tm, InvalidCredential)
                              /\ lastAuth' = [request |-> Request(tm),
                                              outcome |-> InvalidCredential]
                         ELSE /\ handleAuthComplete(tm.app, UserProfile(existingUser))
                              /\ lastAuth' = [request |-> Request(tm), outcome |-> "ok"]
                              /\ UNCHANGED registry
           ELSE IF tm.existingUser # {}
                THEN /\ Rejected(tm, AlreadyExists)
                     /\ lastAuth' = [request |-> Request(tm), outcome |-> AlreadyExists]
                ELSE \E id \in UserIds :
                        LET newUser == NewUser(id, tm.emailClean, tm.name, tm.password)
                        IN  /\ registry' = Append(registry, newUser)
                            /\ handleAuthComplete(tm.app, UserProfile(newUser))
                            /\ lastAuth' = [request |-> Request(tm), outcome |-> "ok"]
    /\ timers' = Tail(timers)
    /\ UNCHANGED <<lang, journalVars>>

\* a variant of handleLogout that clears the session and stays in Vault
LogoutStaysInVault ==
    /\ view = "VAULT"
    /\ user' = NoUser
    /\ savedUser' = NoUser
    /\ UNCHANGED <<lang, trips, selectedTrip, activeDayIdx, now, journalVars, view,
                   pendingAction, registry, auth, timers, lastAuth>>

\* the logout entry of the profile menu of Vault
handleLogout ==
    /\ view = "VAULT"
    /\ user' = NoUser
    /\ savedUser' = NoUser
    /\ view' = "LANDING"
    /\ UNCHANGED <<lang, trips, selectedTrip, activeDayIdx, now, journalVars, pendingAction,
                   registry, auth, timers, lastAuth>>

\* the logo of Vault: onBack
VaultBack ==
    /\ view = "VAULT"
    /\ view' = "LANDING"
    /\ UNCHANGED <<lang, trips, selectedTrip, activeDayIdx, now, journalVars, user, savedUser,
                   pendingAction, registry, auth, timers, lastAuth>>

\* a trip card of Vault: onSelectTrip; Journaling mounts on the trip
SelectTrip ==
    /\ view = "VAULT"
    /\ \E i \in 1..Len(trips) :
          /\ selectedTrip' = trips[i]
          /\ activeDayIdx' = Len(trips[i].days)
    /\ view' = "JOURNALING"
    /\ UNCHANGED <<lang, trips, now, journalVars, user, savedUser, pendingAction, registry,
                   auth, timers, lastAuth>>

\* the back buttons of Journaling: onBack.  Journaling unmounts: its state and
\* refs are gone (the next Journaling starts from useState's initial values),
\* while the promises and recorders its handlers started go on.  The events of
\* a recorder that was stopped arrive within the same few milliseconds, before
\* the next click.
JournalingBack ==
    /\ view = "JOURNALING"
    /\ \A c \in 1..MaxCycles : cycles[c].pc \notin {"stopping", "stopped"}
    /\ view' = "VAULT"
    /\ isRecording' = FALSE
    /\ isProcessing' = FALSE
    /\ mediaRecorderRef' = 0
    /\ streamRef' = 0
    /\ chunksRef' = <<>>
    /\ cycles' = [c \in 1..MaxCycles |->
                     IF cycles[c].pc \in {"acquiring", "recording", "transcribing",
                                          "generating"}
                     THEN [cycles[c] EXCEPT !.mounted = FALSE]
                     ELSE cycles[c]]
    /\ UNCHANGED <<lang, trips, selectedTrip, activeDayIdx, now, readers, ops, last, user,
                   savedUser, pendingAction, registry, auth, timers, lastAuth>>

\* the App has just rendered for the first time: Landing is shown, the browser's
\* store holds an earlier visit's registry and session, or none
AuthInit ==
    /\ lang \in {"en", "hi"}
    /\ now = 0
    /\ trips = <<>>
    /\ selectedTrip = NoTrip
    /\ activeDayIdx = 1
    /\ isRecording = FALSE
    /\ isProcessing = FALSE
    /\ mediaRecorderRef = 0
    /\ streamRef = 0
    /\ chunksRef = <<>>
    /\ cycles = [c \in 1..MaxCycles |-> IdleCycle]
    /\ readers = <<>>
    /\ ops = 0
    /\ last = [op |-> "none", before |-> NoTrip, cl |-> NoClosure, rid |-> 0,
               transcript |-> <<>>, at |-> now]
    /\ view = "LANDING"
    /\ registry \in {<<>>, <<RegisteredA>>}
    /\ user = NoUser
    /\ savedUser \in {NoUser, UserProfile(RegisteredA), Stranger}
    /\ pendingAction = "null"
    /\ auth = AuthMounted(0)
    /\ timers = <<>>
    /\ lastAuth = NoAuth

AuthNext ==
    \/ SessionEffect
    \/ handleAction
    \/ AuthBack
    \/ ToggleMode
    \/ handleSubmit
    \/ AuthTimeout
    \/ handleLogout
    \/ VaultBack
    \/ SelectTrip
    \/ JournalingBack

AuthSpec == AuthInit /\ [][AuthNext]_vars

---------------------------------------------------------------------------

Next ==
    \/ \E c \in 1..MaxCycles : StartRecording(c)
    \/ \E c \in 1..MaxCycles : GetUserMediaResolved(c)
    \/ \E c \in 1..MaxCycles : GetUserMediaRejected(c)
    \/ StopRecording
    \/ \E c \in 1..MaxCycles : DataAvailable(c)
    \/ \E c \in 1..MaxCycles : OnStop(c)
    \/ \E c \in 1..MaxCycles : TranscribeReturned(c)
    \/ \E c \in 1..MaxCycles : ServiceFailed(c)
    \/ \E c \in 1..MaxCycles : ProcessReturned(c)
    \/ LogisticChange
    \/ FoodChange
    \/ TitleChange
    \/ LocationChange
    \/ handleAddDay
    \/ SelectDay
    \/ toggleLang
    \/ handleImageUploadForSection
    \/ handleCoverUpload
    \/ ReaderLoadEnd

Spec == Init /\ [][Next]_vars

---------------------------------------------------------------------------
(* Vocabulary of the properties.  `last` holds the most recent onUpdateTrip *)
(* call: the trip stored before it (last.before), the render whose handler *)
(* made it (last.cl) and, for a merge, the result and the transcript.      *)

IsPrefix(a, b) == Len(a) <= Len(b) /\ SubSeq(b, 1, Len(a)) = a

Ids(sections) == [k \in 1..Len(sections) |-> sections[k].id]

Merged == last.op = "merge"

\* the service result of the last merge
LastResult == Results[last.rid]

\* the index of the Day the last call wrote
LastIdx == last.cl.activeDayIdx

\* the stored Day before and after the last call
DayBefore == last.before.days[LastIdx]
DayAfter == selectedTrip.days[LastIdx]

\* the Day the last call wrote was in the stored trip before the call
DayWasStored == LastIdx \in 1..Len(last.before.days)

\* the handler of the last call read the trip that was stored when it ran
Fresh == last.cl.trip = last.before

\* the sections of Day i of a trip, none when the trip has no Day i
SectionsOf(trip, i) == IF i \in 1..Len(trip.days) THEN trip.days[i].sections ELSE <<>>

TranscriptOf(trip, i) == IF i \in 1..Len(trip.days) THEN trip.days[i].rawTranscript ELSE <<>>

\* the option is empty or holds the empty string
EmptyOrAbsent(opt) == \A v \in opt : v = ""

LogisticsFields == {"hotelName", "hotelCost", "transportMode", "transportCost"}
MealFields == {"name", "cost", "restaurant"}
PlaceholderTitles == {TitleEn, TitleHi}
PlaceholderLocations == {LocationEn, LocationHi}

---------------------------------------------------------------------------
(* Claims *)

\* C1: after every applied merge the stored Day's section list is the stored
\* Day's section list from before the merge followed by one new section per
\* element of result.sections, in the order of the result.
C1_MergeAppendsToStoredSections ==
    (Merged /\ DayWasStored) =>
        DayAfter.sections = DayBefore.sections \o NewSections(LastResult, last.at)

\* C2: across every stored update of the trip, of whatever operation, the section
\* ids every Day had before the update are a prefix of the ids it has after it.
C2_SectionsOnlyGrow ==
    (last.op # "none") =>
        \A i \in 1..Len(last.before.days) :
            IsPrefix(Ids(SectionsOf(last.before, i)), Ids(SectionsOf(selectedTrip, i)))

\* C3: every applied merge sets rawTranscript to the stored rawTranscript from
\* before the merge + " " + the transcript, and no stored update of the trip
\* truncates a Day's rawTranscript.
C3_TranscriptAppendOnly ==
    /\ (Merged /\ DayWasStored) =>
          DayAfter.rawTranscript = DayBefore.rawTranscript \o <<" ">> \o last.transcript
    /\ (last.op # "none") =>
          \A i \in 1..Len(last.before.days) :
              IsPrefix(TranscriptOf(last.before, i), TranscriptOf(selectedTrip, i))

\* C4: a logistics field the result omits keeps, in the merged Day, the value
\* the stored Day had for it when the merge was applied.
C4_OmittedLogisticsKeepStored ==
    (Merged /\ DayWasStored) =>
        \A f \in LogisticsFields \ DOMAIN Sub(LastResult, "logistics") :
            DayAfter.logistics[f] = DayBefore.logistics[f]

\* C5: when the merge is applied to the trip as stored, hotelCost and
\* transportCost have the result's value afterwards whenever the result contains
\* the field (the value 0 included), hotelName and transportMode have the result's
\* value whenever it contains a non-empty one, and every field the result omits
\* keeps its value.
C5_SuppliedLogisticsTaken ==
    (Merged /\ Fresh) =>
        /\ \A f \in {"hotelCost", "transportCost"} :
              DayAfter.logistics[f] =
                  IF f \in DOMAIN Sub(LastResult, "logistics")
                  THEN LastResult.logistics[f] ELSE DayBefore.logistics[f]
        /\ \A f \in {"hotelName", "transportMode"} :
              DayAfter.logistics[f] =
                  IF ~EmptyOrAbsent(Opt(Sub(LastResult, "logistics"), f))
                  THEN LastResult.logistics[f] ELSE DayBefore.logistics[f]

\* C6: for every meal and sub-field, a sub-field the result supplies has the
\* result's value in the merged Day and a sub-field it omits (also when the whole
\* meal is omitted) keeps the value the stored Day had when the merge was applied.
C6_FoodPerFieldFallback ==
    (Merged /\ DayWasStored) =>
        \A m \in Meals : \A f \in MealFields :
            DayAfter.foodLogistics[m][f] =
                IF f \in DOMAIN Sub(Sub(LastResult, "foodLogistics"), m)
                THEN LastResult.foodLogistics[m][f] ELSE DayBefore.foodLogistics[m][f]

\* C7: when the merge is applied to the trip as stored and the result supplies ""
\* or nothing for summary, hotelName, transportMode, a meal's name or restaurant,
\* suggestedTitle or suggestedLocation, the stored value of that field is the same
\* after the merge as before it.
C7_NoOverwriteWithEmpty ==
    (Merged /\ Fresh) =>
        /\ EmptyOrAbsent(Opt(LastResult, "summary")) => DayAfter.summary = DayBefore.summary
        /\ \A f \in {"hotelName", "transportMode"} :
              EmptyOrAbsent(Opt(Sub(LastResult, "logistics"), f)) =>
                 DayAfter.logistics[f] = DayBefore.logistics[f]
        /\ \A m \in Meals : \A f \in {"name", "restaurant"} :
              EmptyOrAbsent(Opt(Sub(Sub(LastResult, "foodLogistics"), m), f)) =>
                 DayAfter.foodLogistics[m][f] = DayBefore.foodLogistics[m][f]
        /\ EmptyOrAbsent(Opt(LastResult, "suggestedTitle")) =>
              selectedTrip.title = last.before.title
        /\ EmptyOrAbsent(Opt(LastResult, "suggestedLocation")) =>
              selectedTrip.location = last.before.location

\* C8: every cost field of every stored Day is a number >= 0.
C8_CostsNonNegative ==
    \A i \in 1..Len(selectedTrip.days) :
        /\ selectedTrip.days[i].logistics.hotelCost >= 0
        /\ selectedTrip.days[i].logistics.transportCost >= 0
        /\ \A m \in Meals : selectedTrip.days[i].foodLogistics[m].cost >= 0

\* C9: when the merge is applied to the trip as stored, the title (location) holds
\* a placeholder createNewTrip assigns, English or Hindi, and the result supplies a
\* non-empty suggestedTitle (suggestedLocation), the stored title (location) is the
\* suggestion afterwards.
C9_PlaceholderReplaced ==
    (Merged /\ Fresh) =>
        /\ (last.before.title \in PlaceholderTitles
              /\ ~EmptyOrAbsent(Opt(LastResult, "suggestedTitle")))
              => selectedTrip.title = LastResult.suggestedTitle
        /\ (last.before.location \in PlaceholderLocations
              /\ ~EmptyOrAbsent(Opt(LastResult, "suggestedLocation")))
              => selectedTrip.location = LastResult.suggestedLocation

\* C10: a merge applied while the stored title (location) is a real value, neither
\* empty nor a placeholder, leaves the stored title (location) as it was.
C10_RealTitleNotClobbered ==
    Merged =>
        /\ last.before.title \notin PlaceholderTitles \cup {""} =>
              selectedTrip.title = last.before.title
        /\ last.before.location \notin PlaceholderLocations \cup {""} =>
              selectedTrip.location = last.before.location

---------------------------------------------------------------------------
(* What the merge does hold: relative to the Day of the render whose       *)
(* handler ran it.  These are the properties C1, C3, C4 and C6 turn into   *)
(* when "the Day before the merge" is read as the handler's activeDay.     *)

MergeAppendsToCapturedDay ==
    Merged =>
        /\ DayAfter.sections = ActiveDay(last.cl).sections \o NewSections(LastResult, last.at)
        /\ DayAfter.rawTranscript =
              ActiveDay(last.cl).rawTranscript \o <<" ">> \o last.transcript

MergeKeepsCapturedFields ==
    Merged =>
        /\ \A f \in LogisticsFields \ DOMAIN Sub(LastResult, "logistics") :
              DayAfter.logistics[f] = ActiveDay(last.cl).logistics[f]
        /\ \A m \in Meals : \A f \in MealFields :
              DayAfter.foodLogistics[m][f] =
                  IF f \in DOMAIN Sub(Sub(LastResult, "foodLogistics"), m)
                  THEN LastResult.foodLogistics[m][f]
                  ELSE ActiveDay(last.cl).foodLogistics[m][f]

---------------------------------------------------------------------------
(* Claims on the summary, the no-change result and the processing cycle *)

\* C11: after every applied merge the stored Day's summary is result.summary when
\* the result supplies a non-empty one, and otherwise the summary the stored Day
\* had before the merge.
C11_SummaryFromResult ==
    (Merged /\ DayWasStored) =>
        DayAfter.summary =
            IF ~EmptyOrAbsent(Opt(LastResult, "summary"))
            THEN LastResult.summary ELSE DayBefore.summary

\* a result with an empty (or no) section list and no logistics or food values
NoChange(result) ==
    /\ "sections" \in DOMAIN result => Len(result.sections) = 0
    /\ "logistics" \notin DOMAIN result
    /\ "foodLogistics" \notin DOMAIN result

\* C12: a merge of a result with an empty section list and no logistics or food
\* values leaves the stored Day's sections, logistics and foodLogistics as they
\* were before the merge and appends " " + transcript to its rawTranscript.
C12_NoChangeResultIsFrame ==
    (Merged /\ DayWasStored /\ NoChange(LastResult)) =>
        /\ DayAfter.sections = DayBefore.sections
        /\ DayAfter.logistics = DayBefore.logistics
        /\ DayAfter.foodLogistics = DayBefore.foodLogistics
        /\ DayAfter.rawTranscript = DayBefore.rawTranscript \o <<" ">> \o last.transcript

\* the step in which cycle c returns on an empty Blob or on a transcript that
\* trims to nothing
EndsWithoutTranscript(c) ==
    \/ cycles[c].pc = "stopped" /\ cycles'[c].pc = "noAudio"
    \/ cycles[c].pc = "transcribing" /\ cycles'[c].pc = "noTranscript"

\* C13: the step that ends a cycle on no audio or on an empty transcript leaves
\* trips (= the persistent store) and selectedTrip unchanged, leaves isProcessing
\* false, shows no notice, and the cycle was never handed to processJournalEntry.
C13_EmptyCaptureEndsSilently ==
    [][\A c \in 1..MaxCycles :
          EndsWithoutTranscript(c) =>
              /\ trips' = trips
              /\ selectedTrip' = selectedTrip
              /\ last' = last
              /\ ~isProcessing'
              /\ cycles'[c].alert = NoAlert
              /\ cycles'[c].submitted = 0]_vars

\* a cycle has ended on an empty transcript and nothing was ever stored
C13_Witness ==
    \E c \in 1..MaxCycles :
        cycles[c].pc = "noTranscript" /\ ~isProcessing /\ last.op = "none"

\* the step in which the transcription or the generation call of cycle c fails
ServiceFails(c) ==
    /\ cycles[c].pc \in {"transcribing", "generating"}
    /\ cycles'[c].pc = "failed"

\* C14: the step in which a service call of a cycle fails stores nothing (trips and
\* selectedTrip are unchanged, no onUpdateTrip call), shows the failure notice, and
\* ends the cycle: no call is made again for it.
C14_FailureStoresNothing ==
    [][\A c \in 1..MaxCycles :
          /\ ServiceFails(c) =>
                /\ trips' = trips
                /\ selectedTrip' = selectedTrip
                /\ last' = last
                /\ cycles'[c].alert = FailedToProcess
          /\ cycles[c].pc = "failed" => cycles'[c].pc = "failed"]_vars

\* the generation call of a cycle has failed after an earlier merge was stored
C14_Witness ==
    \E c \in 1..MaxCycles :
        /\ cycles[c].pc = "failed" /\ cycles[c].submitted > 0
        /\ cycles[c].alert = FailedToProcess
        /\ last.op = "merge"

\* C15: no merge is ever applied from generation output that is not the
\* structured bundle: every applied merge's result has the required sections and
\* summary.  (Results[6] is what processJournalEntry returns for an empty response
\* body, through response.text || "{}", and for the body "{}".)
C15_MalformedOutputIsNotMerged ==
    Merged => {"sections", "summary"} \subseteq DOMAIN LastResult

\* the cycles that hold the microphone or are being processed
InCapture == {c \in 1..MaxCycles :
                 cycles[c].pc \in {"recording", "stopping", "stopped",
                                   "transcribing", "generating"}}

\* C16: at most one cycle is recording or being processed, and at most one
\* processJournalEntry call is in flight.
C16_SingleCycle ==
    /\ Cardinality(InCapture) <= 1
    /\ Cardinality({c \in 1..MaxCycles : cycles[c].pc = "generating"}) <= 1

\* C17: when the merge of a cycle is applied, no merge of a cycle whose transcript
\* was submitted later has been applied already.
C17_MergesInSubmissionOrder ==
    [][\A d \in 1..MaxCycles :
          (cycles[d].pc = "generating" /\ cycles'[d].pc = "merged") =>
              \A c \in 1..MaxCycles :
                  cycles[c].pc = "merged" => cycles[c].submitted < cycles[d].submitted]_vars

\* C18: the step in which stopRecording runs leaves no acquired stream with a live
\* track and no stream reference.
C18_StopReleasesEveryStream ==
    [][(isRecording /\ ~isRecording') =>
          /\ streamRef' = 0
          /\ \A c \in 1..MaxCycles : cycles'[c].tracks # "live"]_vars

\* What C11 and C12 turn into when "before the merge" is read as the Day of the
\* render whose handler ran the merge.
MergeSummaryFromCapturedDay ==
    Merged =>
        /\ DayAfter.summary =
              IF ~EmptyOrAbsent(Opt(LastResult, "summary"))
              THEN LastResult.summary ELSE ActiveDay(last.cl).summary
        /\ NoChange(LastResult) =>
              /\ DayAfter.sections = ActiveDay(last.cl).sections
              /\ DayAfter.logistics = ActiveDay(last.cl).logistics
              /\ DayAfter.foodLogistics = ActiveDay(last.cl).foodLogistics

\* the external calls of every cycle return or fail in the end
Fairness ==
    \A c \in 1..MaxCycles :
        WF_vars(TranscribeReturned(c) \/ ServiceFailed(c) \/ ProcessReturned(c))

\* the steps of the recording cycles, and of the user and the FileReader that
\* store a trip while a cycle runs
CycleNext ==
    \/ \E c \in 1..MaxCycles : StartRecording(c)
    \/ \E c \in 1..MaxCycles : GetUserMediaResolved(c)
    \/ \E c \in 1..MaxCycles : GetUserMediaRejected(c)
    \/ StopRecording
    \/ \E c \in 1..MaxCycles : DataAvailable(c)
    \/ \E c \in 1..MaxCycles : OnStop(c)
    \/ \E c \in 1..MaxCycles : TranscribeReturned(c)
    \/ \E c \in 1..MaxCycles : ServiceFailed(c)
    \/ \E c \in 1..MaxCycles : ProcessReturned(c)
    \/ TitleChange
    \/ handleCoverUpload
    \/ ReaderLoadEnd

FairSpec == Init /\ [][CycleNext]_vars /\ Fairness

\* C19: once the external calls return or fail, every cycle that is being
\* processed ends with isProcessing false, and isProcessing never stays true.
C19_ProcessingEnds ==
    /\ isProcessing ~> ~isProcessing
    /\ \A c \in 1..MaxCycles :
          (cycles[c].pc \in {"transcribing", "generating"})
              ~> (cycles[c].pc \in Ended /\ ~isProcessing)

\* one cycle has ended in a merge and another in a failure, and the record
\* button is enabled
C19_Witness ==
    /\ \E c \in 1..MaxCycles : cycles[c].pc = "merged"
    /\ \E c \in 1..MaxCycles : cycles[c].pc = "failed"
    /\ ~isProcessing

---------------------------------------------------------------------------
(* Claims on the Days, the section ids and the data entered during a merge *)

\* C24: the stored trip has at least one Day, the Day at position i has day
\* number i, and no stored update of the trip, of whatever operation, leaves it
\* with fewer Days than it had: the Days it had are still there, and an added Day
\* comes last with day number = prior count + 1.
C24_DaysKeptAndNumbered ==
    /\ Len(selectedTrip.days) >= 1
    /\ \A i \in 1..Len(selectedTrip.days) : selectedTrip.days[i].dayNumber = i
    /\ (last.op # "none") => Len(selectedTrip.days) >= Len(last.before.days)
    /\ (last.op = "addDay") => Len(selectedTrip.days) = Len(last.before.days) + 1

\* the positions of the sections the last call changed in the Day its handler read
ChangedSections ==
    {k \in 1..Len(ActiveDay(last.cl).sections) :
        DayAfter.sections[k] # ActiveDay(last.cl).sections[k]}

\* C25: in every stored Day no two sections have the same id, and a completed
\* image upload for a section changes one section of the Day its handler read,
\* in its image only.
C25_SectionIdsDistinct ==
    /\ \A i \in 1..Len(selectedTrip.days) :
          \A j, k \in 1..Len(selectedTrip.days[i].sections) :
              selectedTrip.days[i].sections[j].id = selectedTrip.days[i].sections[k].id
                 => j = k
    /\ (last.op = "image") =>
          /\ Len(DayAfter.sections) = Len(ActiveDay(last.cl).sections)
          /\ Cardinality(ChangedSections) = 1
          /\ \A k \in ChangedSections :
                DayAfter.sections[k] =
                    [ActiveDay(last.cl).sections[k] EXCEPT !.image = ImageData]

\* an image was uploaded for one section of a Day that holds the sections of two
\* merges: it is the only section with an image
C25_Witness ==
    /\ last.op = "image"
    /\ \E j, k \in 1..Len(DayAfter.sections) :
          DayAfter.sections[j].id[2] # DayAfter.sections[k].id[2]
    /\ Cardinality({k \in 1..Len(DayAfter.sections) :
                       DayAfter.sections[k].image = ImageData}) = 1

\* C26: what is in the stored trip when a merge is applied is in it afterwards,
\* the fields the result supplies apart: the cover image, the Days (the Days
\* other than the merged one as they were), the sections of the merged Day with
\* their images, the logistics and meal fields the result omits, and a title and
\* location that are neither empty nor a placeholder.
C26_MergeKeepsEnteredData ==
    Merged =>
        /\ selectedTrip.coverImage = last.before.coverImage
        /\ Len(selectedTrip.days) >= Len(last.before.days)
        /\ \A i \in 1..Len(last.before.days) :
              i # LastIdx => selectedTrip.days[i] = last.before.days[i]
        /\ DayWasStored =>
              /\ IsPrefix(DayBefore.sections, DayAfter.sections)
              /\ \A f \in LogisticsFields \ DOMAIN Sub(LastResult, "logistics") :
                    DayAfter.logistics[f] = DayBefore.logistics[f]
              /\ \A m \in Meals :
                    \A f \in MealFields \ DOMAIN Sub(Sub(LastResult, "foodLogistics"), m) :
                        DayAfter.foodLogistics[m][f] = DayBefore.foodLogistics[m][f]
        /\ last.before.title \notin PlaceholderTitles \cup {""} =>
              selectedTrip.title = last.before.title
        /\ last.before.location \notin PlaceholderLocations \cup {""} =>
              selectedTrip.location = last.before.location

\* What the merge does hold: applied to the trip as stored, it keeps all of it
MergeOfStoredTripKeepsEnteredData == (Merged /\ Fresh) => C26_MergeKeepsEnteredData

---------------------------------------------------------------------------
(* Claims on Auth *)

\* the step in which the callback of a validated login request runs
LoginCompletes ==
    /\ timers # <<>>
    /\ timers' = Tail(timers)
    /\ Head(timers).mode = "LOGIN"

\* the login fails with the message: it is recorded and shown in the form that
\* was submitted, and registry and session are as before
LoginFails(tm, message) ==
    /\ lastAuth'.outcome = message
    /\ (view = "AUTH" /\ auth.mount = tm.mount) => auth'.error = message
    /\ registry' = registry
    /\ user' = user
    /\ savedUser' = savedUser

\* C20: a validated login request fails with 'not found' when the registry it was
\* submitted against has no entry with the lower-cased, trimmed email, fails with
\* 'invalid credential' when the entry's secret differs, and otherwise hands the
\* entry without its secret to the application as the session; a failed login
\* changes neither the registry nor the session.
C20_LoginOutcome ==
    [][LoginCompletes =>
          LET tm == Head(timers)
              key == Trim(ToLowerCase(tm.email))
              hits == {i \in 1..Len(tm.registry) : tm.registry[i].email = key}
          IN  IF hits = {}
              THEN LoginFails(tm, NotFound)
              ELSE LET entry == tm.registry[CHOOSE i \in hits : \A j \in hits : i <= j]
                   IN  IF entry.password # tm.password
                       THEN LoginFails(tm, InvalidCredential)
                       ELSE /\ lastAuth'.outcome = "ok"
                            /\ user' = [k \in {"id", "email", "name", "avatar"} |-> entry[k]]
                            /\ savedUser' = user'
                            /\ registry' = registry]_vars

\* the login with "A@gmail.com " and abcdef against the entry a@gmail.com/abcdef
\* has succeeded
C20_Witness ==
    /\ lastAuth.outcome = "ok"
    /\ lastAuth.request.mode = "LOGIN"
    /\ lastAuth.request.email = EmailARaw
    /\ lastAuth.request.password = SecretA
    /\ lastAuth.request.registry = <<RegisteredA>>
    /\ user.email = EmailA

\* the step in which the callback of a validated signup request runs
SignupCompletes ==
    /\ timers # <<>>
    /\ timers' = Tail(timers)
    /\ Head(timers).mode = "SIGNUP"

\* C21: a validated signup request fails with 'already exists', the registry
\* unchanged, when the registry it was submitted against has an entry with the
\* lower-cased, trimmed email; otherwise exactly one entry is appended to the
\* registry, with a generated id, that email, the name typed (the part of the
\* email before '@' when none was), the avatar derived from the email and the
\* secret, and the application gets that entry without the secret.
C21_SignupOutcome ==
    [][SignupCompletes =>
          LET tm == Head(timers)
              key == Trim(ToLowerCase(tm.email))
          IN  IF \E i \in 1..Len(tm.registry) : tm.registry[i].email = key
              THEN /\ lastAuth'.outcome = AlreadyExists
                   /\ (view = "AUTH" /\ auth.mount = tm.mount) => auth'.error = AlreadyExists
                   /\ registry' = registry
                   /\ user' = user
                   /\ savedUser' = savedUser
              ELSE /\ Len(registry') = Len(registry) + 1
                   /\ SubSeq(registry', 1, Len(registry)) = registry
                   /\ LET entry == registry'[Len(registry')]
                      IN  /\ DOMAIN entry = {"id", "email", "name", "password", "avatar"}
                          /\ entry.id \in UserIds
                          /\ entry.email = key
                          /\ entry.name = IF tm.name # <<>> THEN tm.name
                                          ELSE SubSeq(key, 1, Len(key) - Len(Gmail))
                          /\ entry.avatar = <<"dicebear">> \o key
                          /\ entry.password = tm.password
                          /\ user' = [k \in {"id", "email", "name", "avatar"} |-> entry[k]]
                          /\ savedUser' = user'
                          /\ lastAuth'.outcome = "ok"]_vars

\* the signup with "A@gmail.com " and abcdef against the empty registry has
\* stored the entry a@gmail.com and signed its profile in
C21_Witness ==
    /\ lastAuth.outcome = "ok"
    /\ lastAuth.request.mode = "SIGNUP"
    /\ lastAuth.request.email = EmailARaw
    /\ lastAuth.request.registry = <<>>
    /\ Len(registry) = 1
    /\ registry[1].email = EmailA
    /\ registry[1].password = lastAuth.request.password
    /\ user.email = EmailA

\* C22: the registry never holds two entries with the same email.
C22_OneEntryPerEmail ==
    \A i, j \in 1..Len(registry) : registry[i].email = registry[j].email => i = j

\* the step in which a form that is not waiting for a callback is submitted:
\* the typed values are in the form afterwards
Submits ==
    /\ view = "AUTH" /\ view' = "AUTH"
    /\ ~auth.isLoading
    /\ auth'.mode = auth.mode
    /\ auth'.mount = auth.mount
    /\ Len(timers') >= Len(timers)
    /\ <<auth, timers>>' # <<auth, timers>>

\* the email, lower-cased and trimmed, ends in @gmail.com
InDomain(email) ==
    LET e == Trim(ToLowerCase(email))
    IN  /\ Len(e) >= Len(Gmail)
        /\ SubSeq(e, Len(e) - Len(Gmail) + 1, Len(e)) = Gmail

\* C23: a submitted form whose lower-cased, trimmed email does not end in
\* @gmail.com, or whose secret has fewer than 6 characters, is rejected with the
\* validation message: no callback is scheduled, and the registry, the session
\* and the view are as before.
C23_InvalidInputIsRejected ==
    [][(Submits /\ (~InDomain(auth'.email) \/ Len(auth'.password) < 6)) =>
          /\ auth'.error = IF ~InDomain(auth'.email) THEN InvalidEmail ELSE ShortPassword
          /\ ~auth'.isLoading
          /\ timers' = timers
          /\ registry' = registry
          /\ user' = user
          /\ savedUser' = savedUser
          /\ trips' = trips]_vars

\* a@x.com was submitted and rejected: the form shows the message, nothing is
\* scheduled and nobody is signed in
C23_Witness ==
    /\ view = "AUTH"
    /\ auth.email = EmailOther
    /\ auth.error = InvalidEmail
    /\ ~auth.isLoading
    /\ timers = <<>>
    /\ user = NoUser

\* the step in which the callback of an attempt runs whose Auth screen was left
\* by Back
AbandonedCompletes ==
    /\ timers # <<>>
    /\ timers' = Tail(timers)
    /\ (view # "AUTH" \/ auth.mount # Head(timers).mount)

\* C28: the callback of an attempt abandoned by Back changes neither the
\* signed-in user, the persisted session, the registry, the trip list nor the view.
C28_AbandonedAttemptHasNoEffect ==
    [][AbandonedCompletes =>
          /\ user' = user
          /\ savedUser' = savedUser
          /\ registry' = registry
          /\ trips' = trips
          /\ view' = view]_vars

\* C29: Vault and Journaling are shown only while a user is signed in; without a
\* user a click on Landing leads to Auth with the action kept pending, a view
\* behind the sign-in opens and a trip is created only in the step in which an
\* authentication succeeds; and the step that signs the user out ends on Landing
\* with no persisted session.
C29_ViewsBehindSignIn ==
    /\ [](view \in {"VAULT", "JOURNALING"} => user # NoUser)
    /\ [][/\ (view = "LANDING" /\ user = NoUser /\ view' # view /\ timers' = timers)
             => (view' = "AUTH" /\ pendingAction' \in {"NEW_TRIP", "VIEW_VAULT"}
                 /\ trips' = trips)
          /\ (user = NoUser /\ (view' \in {"VAULT", "JOURNALING"} \/ trips' # trips))
             => (timers # <<>> /\ timers' = Tail(timers) /\ lastAuth'.outcome = "ok"
                 /\ user' # NoUser)
          /\ (user # NoUser /\ user' = NoUser)
             => (view' = "LANDING" /\ savedUser' = NoUser)]_vars

\* a user signed in from Auth with New Chronicle pending, the trip was created,
\* and the user has logged out: Landing is shown and nobody is signed in
C29_Witness ==
    /\ view = "LANDING"
    /\ user = NoUser
    /\ savedUser = NoUser
    /\ lastAuth.outcome = "ok"
    /\ trips # <<>>

\* C30: App's mount effect restores the persisted user exactly when the registry
\* has an entry with its email and removes the persisted user otherwise; from
\* then on the signed-in user is the persisted one, has an entry in the registry
\* and carries no secret.
C30_SessionValidity ==
    /\ [][(lastAuth = NoAuth /\ lastAuth' # NoAuth) =>
             LET valid == /\ savedUser # NoUser
                          /\ \E i \in 1..Len(registry) : registry[i].email = savedUser.email
             IN  /\ user' = IF valid THEN savedUser ELSE NoUser
                 /\ savedUser' = user'
                 /\ registry' = registry]_vars
    /\ [](lastAuth # NoAuth =>
             /\ user = savedUser
             /\ user # NoUser =>
                   /\ \E i \in 1..Len(registry) : registry[i].email = user.email
                   /\ "password" \notin DOMAIN user
                   /\ "password" \notin DOMAIN savedUser)

\* the persisted profile of a@gmail.com was restored by the mount effect and is
\* signed in on Vault
C30_Witness ==
    /\ lastAuth.outcome = "startup"
    /\ lastAuth.request.savedUser = UserProfile(RegisteredA)
    /\ user = UserProfile(RegisteredA)
    /\ savedUser = user
    /\ view = "VAULT"

---------------------------------------------------------------------------
(* Journaling together with App's navigation: a signed-in user records,    *)
(* picks a cover, leaves Journaling, opens or creates trips                *)

\* the user has signed up and created the first trip: Journaling shows it
NavInit ==
    /\ lang \in {"en", "hi"}
    /\ now = 0
    /\ selectedTrip = NewTrip(lang, now)
    /\ trips = <<selectedTrip>>
    /\ activeDayIdx = 1
    /\ isRecording = FALSE
    /\ isProcessing = FALSE
    /\ mediaRecorderRef = 0
    /\ streamRef = 0
    /\ chunksRef = <<>>
    /\ cycles = [c \in 1..MaxCycles |-> IdleCycle]
    /\ readers = <<>>
    /\ ops = 0
    /\ last = [op |-> "none", before |-> selectedTrip, cl |-> NoClosure, rid |-> 0,
               transcript |-> <<>>, at |-> now]
    /\ view = "JOURNALING"
    /\ registry = <<RegisteredA>>
    /\ user = UserProfile(RegisteredA)
    /\ savedUser = user
    /\ pendingAction = "null"
    /\ auth = AuthMounted(1)
    /\ timers = <<>>
    /\ lastAuth = [request |-> [mode |-> "SIGNUP", email |-> EmailA, password |-> SecretA,
                                registry |-> <<>>],
                   outcome |-> "ok"]

\* the recordings one session of navigation starts
MaxNavCycles == 1

NavNext ==
    \/ \E c \in 1..MaxNavCycles :
          \/ StartRecording(c)
          \/ GetUserMediaResolved(c)
          \/ GetUserMediaRejected(c)
          \/ DataAvailable(c)
          \/ OnStop(c)
          \/ TranscribeReturned(c)
          \/ ServiceFailed(c)
          \/ ProcessReturned(c)
    \/ StopRecording
    \/ handleCoverUpload
    \/ ReaderLoadEnd
    \/ JournalingBack
    \/ VaultBack
    \/ SelectTrip
    \/ handleAction

NavSpec == NavInit /\ [][NavNext]_vars

\* the step in which handleUpdateTrip is called
Updates == last' # last

\* C27: a call of handleUpdateTrip leaves every trip of the list other than
\* the updated one in the list, as it was, and while Journaling is shown it does
\* not put another trip on screen.
C27_UpdateTouchesOneTrip ==
    [][Updates =>
          /\ \A i \in 1..Len(trips) :
                trips[i].id # selectedTrip'.id =>
                   \E j \in 1..Len(trips') : trips'[j] = trips[i]
          /\ view = "JOURNALING" => selectedTrip'.id = selectedTrip.id]_vars

====
